---------------------------- MODULE Spec2Model ----------------------------
(***************************************************************************)
(* SkillLens: the Analyze page (src/src/app/page.tsx) and the /api/jobs    *)
(* gateway (src/src/app/api/jobs/route.ts).                                *)
(*                                                                         *)
(* JavaScript strings are TLA+ strings (TLC evaluates Len, \o and SubSeq   *)
(* on them); JavaScript numbers are IEEE-754 binary64 values, modelled     *)
(* exactly as scaled naturals (see the "Number" section).                  *)
(***************************************************************************)
EXTENDS Integers, Sequences, FiniteSets, TLC

(***************************************************************************)
(* Bounds of the model.                                                    *)
(***************************************************************************)
\* longest requiredSkills list enumerated exhaustively over SkillPool
MaxRequired == 2
\* number of POST requests the gateway receives
MaxPosts == 2
\* number of pending setTimeout callbacks that clear the toast
MaxTimers == 1

(***************************************************************************)
(* String primitives of JavaScript used by the page and the gateway.       *)
(***************************************************************************)
CharAt(s, i) == SubSeq(s, i, i)

\* the characters \s matches and trim() removes (the ones the inputs use)
Whitespace == {" ", "\t", "\n", "\r"}

LowerChar(c) ==
    CASE c = "A" -> "a" [] c = "B" -> "b" [] c = "C" -> "c" [] c = "D" -> "d"
      [] c = "E" -> "e" [] c = "F" -> "f" [] c = "G" -> "g" [] c = "H" -> "h"
      [] c = "I" -> "i" [] c = "J" -> "j" [] c = "K" -> "k" [] c = "L" -> "l"
      [] c = "M" -> "m" [] c = "N" -> "n" [] c = "O" -> "o" [] c = "P" -> "p"
      [] c = "Q" -> "q" [] c = "R" -> "r" [] c = "S" -> "s" [] c = "T" -> "t"
      [] c = "U" -> "u" [] c = "V" -> "v" [] c = "W" -> "w" [] c = "X" -> "x"
      [] c = "Y" -> "y" [] c = "Z" -> "z" [] OTHER -> c

\* String.prototype.toLowerCase
RECURSIVE toLowerCase(_)
toLowerCase(s) ==
    IF s = "" THEN ""
    ELSE LowerChar(CharAt(s, 1)) \o toLowerCase(SubSeq(s, 2, Len(s)))

\* String.prototype.trim
trim(s) ==
    LET keep == {i \in 1..Len(s) : CharAt(s, i) \notin Whitespace}
    IN  IF keep = {} THEN ""
        ELSE SubSeq(s, CHOOSE i \in keep : \A j \in keep : i <= j,
                       CHOOSE i \in keep : \A j \in keep : i >= j)

\* String.prototype.replace(/[\.\-\s]/g, "")
RECURSIVE stripDotsHyphensSpaces(_)
stripDotsHyphensSpaces(s) ==
    IF s = "" THEN ""
    ELSE LET c == CharAt(s, 1)
             rest == stripDotsHyphensSpaces(SubSeq(s, 2, Len(s)))
         IN  IF c \in ({".", "-"} \cup Whitespace) THEN rest ELSE c \o rest

\* String.prototype.includes
includes(hay, needle) ==
    \E i \in 1..(Len(hay) - Len(needle) + 1) :
        SubSeq(hay, i, i + Len(needle) - 1) = needle

\* String.prototype.split(","): the pieces between the commas, empty ones kept
RECURSIVE splitComma(_)
splitComma(s) ==
    LET commas == {i \in 1..Len(s) : CharAt(s, i) = ","}
    IN  IF commas = {} THEN <<s>>
        ELSE LET c == CHOOSE i \in commas : \A j \in commas : i <= j
             IN  <<SubSeq(s, 1, c - 1)>> \o splitComma(SubSeq(s, c + 1, Len(s)))

\* (hay.match(new RegExp(escaped needle, "g")) || []).length: the matches of a
\* literal pattern, found left to right without overlap; the empty pattern
\* matches at every position, the end included
RECURSIVE matchCount(_, _)
matchCount(hay, needle) ==
    IF needle = "" THEN Len(hay) + 1
    ELSE LET hits == {i \in 1..(Len(hay) - Len(needle) + 1) :
                         SubSeq(hay, i, i + Len(needle) - 1) = needle}
         IN  IF hits = {} THEN 0
             ELSE LET f == CHOOSE i \in hits : \A j \in hits : i <= j
                  IN  1 + matchCount(SubSeq(hay, f + Len(needle), Len(hay)), needle)

Range(seq) == {seq[i] : i \in 1..Len(seq)}

\* the array a map() returns, its elements computed once
Array(f) == SubSeq(f, 1, Len(f))

\* Array.prototype.filter
RECURSIVE filterSeq(_, _)
filterSeq(seq, keep) ==
    IF seq = <<>> THEN <<>>
    ELSE (IF Head(seq) \in keep THEN <<Head(seq)>> ELSE <<>>)
         \o filterSeq(Tail(seq), keep)

\* helper: normalize (page.tsx 41-42)
normalize(str) == stripDotsHyphensSpaces(toLowerCase(trim(str)))

(***************************************************************************)
(* Number: JavaScript numbers are IEEE-754 binary64.  The values the page  *)
(* computes are non-negative and below 2^15, so a number x is held exactly *)
(* as the natural x * 2^75, written little-endian in digits of base 2^15   *)
(* (TLC's integers are 32 bits wide).  Each arithmetic operation computes  *)
(* the exact result and rounds it to 53 significant bits, to nearest, ties *)
(* to even, as the hardware does.                                          *)
(***************************************************************************)
Base == 2^15

\* the fraction bits 2^-1 .. 2^-75 as five zero digits
FracZeros == <<0, 0, 0, 0, 0>>

RECURSIVE bigTrim(_)
bigTrim(N) ==
    IF N # <<>> /\ N[Len(N)] = 0 THEN bigTrim(SubSeq(N, 1, Len(N) - 1)) ELSE N

RECURSIVE bigMulSmall(_, _, _)
bigMulSmall(N, k, carry) ==
    IF N = <<>>
    THEN IF carry = 0 THEN <<>>
         ELSE <<carry % Base>> \o bigMulSmall(<<>>, k, carry \div Base)
    ELSE LET t == Head(N) * k + carry
         IN  <<t % Base>> \o bigMulSmall(Tail(N), k, t \div Base)

RECURSIVE bigAdd(_, _, _)
bigAdd(A, B, carry) ==
    IF A = <<>> /\ B = <<>>
    THEN IF carry = 0 THEN <<>> ELSE <<carry>>
    ELSE LET a == IF A = <<>> THEN 0 ELSE Head(A)
             b == IF B = <<>> THEN 0 ELSE Head(B)
             t == a + b + carry
         IN  <<t % Base>> \o bigAdd(IF A = <<>> THEN <<>> ELSE Tail(A),
                                    IF B = <<>> THEN <<>> ELSE Tail(B),
                                    t \div Base)

\* long division by a small divisor, most significant digit first
RECURSIVE bigDivSmall(_, _)
bigDivSmall(N, n) ==
    IF N = <<>> THEN [q |-> <<>>, r |-> 0]
    ELSE LET hi == bigDivSmall(Tail(N), n)
             t  == hi.r * Base + Head(N)
         IN  [q |-> <<t \div n>> \o hi.q, r |-> t % n]

bitLen(N) ==
    IF N = <<>> THEN 0
    ELSE (Len(N) - 1) * 15
         + (CHOOSE b \in 1..15 : 2^(b - 1) <= N[Len(N)] /\ N[Len(N)] < 2^b)

\* N \div 2^s, and whether a non-zero bit was shifted out
shiftRight(N, s) ==
    LET j == IF s \div 15 < Len(N) THEN s \div 15 ELSE Len(N)
        d == bigDivSmall(SubSeq(N, j + 1, Len(N)), 2^(s % 15))
    IN  [q    |-> bigTrim(d.q),
         lost |-> d.r # 0 \/ \E i \in 1..j : N[i] # 0]

shiftLeft(N, s) ==
    [i \in 1..(s \div 15) |-> 0] \o bigMulSmall(N, 2^(s % 15), 0)

\* round an exact result to 53 significant bits; sticky: the exact result
\* lies strictly above N (the remainder of a division)
roundTo53(N, sticky) ==
    IF bitLen(N) <= 53 THEN N
    ELSE LET s     == bitLen(N) - 53
             a     == shiftRight(N, s - 1)
             q     == shiftRight(a.q, 1).q
             half  == a.q[1] % 2 = 1
             below == a.lost \/ sticky
             up    == half /\ (below \/ q[1] % 2 = 1)
         IN  shiftLeft(IF up THEN bigAdd(q, <<1>>, 0) ELSE q, s)

\* an integer below 2^15 as a number
fromInt(m) == IF m = 0 THEN <<>> ELSE FracZeros \o <<m>>

\* m / n for integers m, n: the quotient, correctly rounded
fdiv(m, n) ==
    LET d == bigDivSmall(fromInt(m), n)
    IN  roundTo53(bigTrim(d.q), d.r # 0)

\* x * k for a number x and an integer-valued number k
fmul(x, k) == roundTo53(bigTrim(bigMulSmall(x, k, 0)), FALSE)

\* x + y
fadd(x, y) == roundTo53(bigTrim(bigAdd(x, y, 0)), FALSE)

\* Math.round: floor(x + 1/2), computed exactly
mathRound(x) ==
    LET a == shiftRight(x, Len(FracZeros) * 15 - 1).q
        twice == IF a = <<>> THEN 0
                 ELSE a[1] + (IF Len(a) > 1 THEN a[2] * Base ELSE 0)
    IN  (twice + 1) \div 2

\* the decimal literals 0.6, 0.3 and 0.1: the nearest binary64 values
Weight06 == fdiv(6, 10)
Weight03 == fdiv(3, 10)
Weight01 == fdiv(1, 10)

\* Math.round((count / total) * 100)   (page.tsx 123, 129, 135)
roundedPercent(count, total) == mathRound(fmul(fdiv(count, total), 100))

\* Math.round(mp * 0.6 + tp * 0.3 + sp * 0.1), then the clamp (page.tsx 140-141)
weightedScore(mp, tp, sp) ==
    LET score == mathRound(fadd(fadd(fmul(Weight06, mp), fmul(Weight03, tp)),
                                fmul(Weight01, sp)))
        capped == IF score < 100 THEN score ELSE 100
    IN  IF capped > 0 THEN capped ELSE 0

(***************************************************************************)
(* The state.                                                              *)
(***************************************************************************)
VARIABLES
    jobDescription,     \* page: useState("")
    userSkills,         \* page: useState(""), the raw comma-separated text
    analysis,           \* page: useState<AnalysisResult | null>, <<>> or <<a>>
    loading,            \* page: useState(false)
    error,              \* page: useState<string | null>
    toast,              \* page: useState<string | null>
    timers,             \* page: pending setTimeout(() => setToast(null)) calls
    pending,            \* page: the handleAnalyze call suspended at its await
    jobAnalysisStore,   \* gateway: the in-process list
    posts,              \* gateway: the POST calls, each with its position
    clicks,             \* history: parity of the handleAnalyze calls so far
    lastOk,             \* history: the last attempt that installed a result
    runs,               \* history: the last two such attempts with their figures
    resetSince          \* history: handleReset has run and no handleAnalyze
                        \*          has sent a request since

pageVars == <<jobDescription, userSkills, analysis, loading, error, toast,
              timers, pending>>
gatewayVars == <<jobAnalysisStore, posts>>
historyVars == <<clicks, lastOk, runs, resetSince>>
vars == <<pageVars, gatewayVars, historyVars>>

\* null of a nullable value held as a sequence of at most one element
Null == <<>>
\* null of the nullable strings error and toast
NoMessage == "<null>"

ValidationMessage == "Please fill in both fields before analyzing."
FormatMessage == "API returned an unexpected data format."
FailedMessage == "Analysis failed. Check server console/network tab."
ResetToast == "Reset done"

(***************************************************************************)
(* handleAnalyze: the fuzzy re-match and the classification                *)
(* (page.tsx 71-104).                                                      *)
(***************************************************************************)
technicalKeywords ==
    <<"html", "css", "javascript", "typescript", "react", "angular", "vue",
      "svelte", "node", "express", "api", "sql", "postgres", "mysql",
      "mongodb", "redis", "docker", "kubernetes", "aws", "gcp", "azure",
      "git", "webpack", "vite", "next", "nestjs">>

\* userSkills.split(",").map(normalize)
userSkillsArray(text) ==
    LET parts == splitComma(text)
    IN  Array([i \in 1..Len(parts) |-> normalize(parts[i])])

\* userSkillsArray.some(u => u.includes(normSkill) || normSkill.includes(u))
isMatched_oneWay(skill, userArray) ==
    \E i \in 1..Len(userArray) : includes(userArray[i], normalize(skill))

isMatched(skill, userArray) ==
    LET normSkill == normalize(skill)
    IN  \E i \in 1..Len(userArray) :
            includes(userArray[i], normSkill) \/ includes(normSkill, userArray[i])

\* technicalKeywords.some(kw => lower.includes(kw))
isTechnical_caseSensitive(skill) ==
    \E k \in 1..Len(technicalKeywords) : includes(skill, technicalKeywords[k])

isTechnical(skill) ==
    LET lower == toLowerCase(skill)
    IN  \E k \in 1..Len(technicalKeywords) : includes(lower, technicalKeywords[k])

\* the object passed to setAnalysis
buildAnalysis(requiredSkills, userText) ==
    LET userArray == userSkillsArray(userText)
        all == Range(requiredSkills)
    IN  [requiredSkills  |-> requiredSkills,
         missingSkills   |-> filterSeq(requiredSkills,
                                 {s \in all : ~isMatched(s, userArray)}),
         technicalSkills |-> filterSeq(requiredSkills,
                                 {s \in all : isTechnical(s)}),
         softSkills      |-> filterSeq(requiredSkills,
                                 {s \in all : ~isTechnical(s)})]

\* the body of the POST: userSkills.split(",").map(trim).filter(Boolean)
requestBody(jd, text) ==
    LET parts == splitComma(text)
        trimmed == Array([i \in 1..Len(parts) |-> trim(parts[i])])
    IN  [valid |-> TRUE,
         jobDescription |-> jd,
         isArray |-> TRUE,
         userSkills |-> filterSeq(trimmed, Range(trimmed) \ {""})]

\* res.data && Array.isArray(requiredSkills) && Array.isArray(missingSkills)
expectedShape(res) == res.hasData /\ res.requiredIsArray /\ res.missingIsArray

(***************************************************************************)
(* The computed values of the page (page.tsx 116-195): each is a function  *)
(* of the analysis (and topSuggested of the job description as well); the  *)
(* page shows them for the current state.                                  *)
(***************************************************************************)
\* useMemo matchedSkills (page.tsx 116-119), for a nullable analysis a
matchedSkillsOf(a) ==
    IF a = Null THEN <<>>
    ELSE filterSeq(a[1].requiredSkills,
                   Range(a[1].requiredSkills) \ Range(a[1].missingSkills))

\* useMemo matchPercentage (page.tsx 121-124)
matchPercentageOf(a) ==
    IF a = Null \/ Len(a[1].requiredSkills) = 0 THEN 0
    ELSE roundedPercent(Len(matchedSkillsOf(a)), Len(a[1].requiredSkills))

\* useMemo technicalMatchPercentage (page.tsx 126-130)
technicalMatchPercentageOf(a) ==
    IF a = Null \/ Len(a[1].technicalSkills) = 0 THEN 0
    ELSE roundedPercent(
             Len(filterSeq(matchedSkillsOf(a), Range(a[1].technicalSkills))),
             Len(a[1].technicalSkills))

\* useMemo softMatchPercentage (page.tsx 132-136)
softMatchPercentageOf(a) ==
    IF a = Null \/ Len(a[1].softSkills) = 0 THEN 0
    ELSE roundedPercent(
             Len(filterSeq(matchedSkillsOf(a), Range(a[1].softSkills))),
             Len(a[1].softSkills))

\* useMemo readinessScore (page.tsx 138-142)
readinessScoreOf(a) ==
    IF a = Null THEN 0
    ELSE weightedScore(matchPercentageOf(a), technicalMatchPercentageOf(a),
                       softMatchPercentageOf(a))

importanceWords ==
    <<"must", "required", "need", "essential", "strong", "experience",
      "proficiency", "proven">>

\* the score topSuggested gives one missing skill (page.tsx 158-165)
skillScore(skill, jd) ==
    LET lowerJD == toLowerCase(jd)
        skillLower == toLowerCase(skill)
        phrased == {w \in 1..Len(importanceWords) :
                       \/ includes(lowerJD, importanceWords[w] \o " " \o skillLower)
                       \/ includes(lowerJD,
                                   importanceWords[w] \o " with " \o skillLower)}
    IN  5 * Cardinality(phrased) + 2 * matchCount(lowerJD, skillLower)

\* ranked.sort((a, b) => b.score - a.score): Array.prototype.sort is stable
RECURSIVE sortByScore_ascending(_)
sortByScore_ascending(ranked) ==
    IF ranked = <<>> THEN <<>>
    ELSE LET r == ranked[Len(ranked)]
             sorted == sortByScore_ascending(SubSeq(ranked, 1, Len(ranked) - 1))
             k == Cardinality({i \in 1..Len(sorted) : sorted[i].score <= r.score})
         IN  SubSeq(sorted, 1, k) \o <<r>> \o SubSeq(sorted, k + 1, Len(sorted))

RECURSIVE sortByScore(_)
sortByScore(ranked) ==
    IF ranked = <<>> THEN <<>>
    ELSE LET r == ranked[Len(ranked)]
             sorted == sortByScore(SubSeq(ranked, 1, Len(ranked) - 1))
             k == Cardinality({i \in 1..Len(sorted) : sorted[i].score >= r.score})
         IN  SubSeq(sorted, 1, k) \o <<r>> \o SubSeq(sorted, k + 1, Len(sorted))

\* Array.prototype.slice(0, n)
sliceTo(seq, n) == SubSeq(seq, 1, IF n < Len(seq) THEN n ELSE Len(seq))

\* useMemo topSuggested (page.tsx 152-176)
topSuggestedOf(a, jd) ==
    IF a = Null THEN <<>>
    ELSE LET missing == a[1].missingSkills
             ranked == sortByScore(Array([i \in 1..Len(missing) |->
                           [skill |-> missing[i],
                            score |-> skillScore(missing[i], jd)]]))
             top5 == sliceTo(ranked, 5)
             top == Array([i \in 1..Len(top5) |-> top5[i].skill])
         IN  IF Len(top) < 5
             THEN top \o sliceTo(filterSeq(missing, Range(missing) \ Range(top)),
                                 5 - Len(top))
             ELSE top

\* the five fixed lines (their em dashes written as hyphens)
RoadmapLines ==
    <<"1. Core fundamentals - HTML, CSS, and JavaScript (build small projects).",
      "2. Learn a modern framework - React/Next.js and state management (Redux/Zustand).",
      "3. Backend basics - Build RESTful APIs with Node/Express and practice with a database.",
      "4. Developer tools - Git, Docker, and basic cloud deployment.",
      "5. Soft skills - communication, teamwork, documenting your work (README/comments).">>

RoadmapFallback ==
    "1. Start with core JS + one framework, 2. Build CRUD app + DB, 3. Learn Git & deployment."

\* the keywords behind hasHTMLorCSSorJS, hasFramework, hasBackend, hasTools, hasSoft
RoadmapKeywords ==
    <<{"html", "css", "javascript", "typescript"},
      {"react", "angular", "vue", "next", "svelte"},
      {"node", "express", "api", "sql", "mongodb"},
      {"git", "docker", "aws", "azure"},
      {"communication", "team", "collaboration"}>>

\* lowerMissing.some(s => s.includes(k1) || s.includes(k2) || ...)
hasBucket(missing, b) ==
    \E i \in 1..Len(missing) :
        \E kw \in RoadmapKeywords[b] : includes(toLowerCase(missing[i]), kw)

\* useMemo learningRoadmap (page.tsx 178-195)
learningRoadmapOf_backendFirst(a) ==
    IF a = Null THEN <<>>
    ELSE LET missing == a[1].missingSkills
             line(b) == IF hasBucket(missing, b) THEN <<RoadmapLines[b]>> ELSE <<>>
             roadmap == line(3) \o line(1) \o line(2) \o line(4) \o line(5)
         IN  IF Len(roadmap) = 0 THEN <<RoadmapFallback>> ELSE roadmap

learningRoadmapOf(a) ==
    IF a = Null THEN <<>>
    ELSE LET missing == a[1].missingSkills
             line(b) == IF hasBucket(missing, b) THEN <<RoadmapLines[b]>> ELSE <<>>
             roadmap == line(1) \o line(2) \o line(3) \o line(4) \o line(5)
         IN  IF Len(roadmap) = 0 THEN <<RoadmapFallback>> ELSE roadmap

\* the values the page renders in the current state
matchedSkills == matchedSkillsOf(analysis)
matchPercentage == matchPercentageOf(analysis)
technicalMatchPercentage == technicalMatchPercentageOf(analysis)
softMatchPercentage == softMatchPercentageOf(analysis)
readinessScore == readinessScoreOf(analysis)
topSuggested == topSuggestedOf(analysis, jobDescription)
learningRoadmap == learningRoadmapOf(analysis)

(***************************************************************************)
(* The handlers of the page.                                               *)
(***************************************************************************)
\* onChange of the job description textarea (page.tsx 255)
setJobDescription(text) ==
    /\ jobDescription' = text
    /\ UNCHANGED <<userSkills, analysis, loading, error, toast, timers, pending>>

\* onChange of the skills input (page.tsx 262)
setUserSkills(text) ==
    /\ userSkills' = text
    /\ UNCHANGED <<jobDescription, analysis, loading, error, toast, timers, pending>>

\* handleAnalyze up to its await (page.tsx 53-69); the button that calls it
\* is disabled while loading (page.tsx 267-268)
handleAnalyze_clearFirst ==
    /\ ~loading
    /\ IF jobDescription = "" \/ userSkills = ""
       THEN /\ error' = ValidationMessage
            /\ analysis' = Null
            /\ UNCHANGED <<jobDescription, userSkills, loading, toast,
                           timers, pending>>
       ELSE /\ error' = NoMessage
            /\ loading' = TRUE
            /\ analysis' = Null
            /\ pending' = <<[jobDescription |-> jobDescription,
                             userSkills |-> userSkills,
                             body |-> requestBody(jobDescription, userSkills)]>>
            /\ UNCHANGED <<jobDescription, userSkills, toast, timers>>

handleAnalyze_keepAnalysis ==
    /\ ~loading
    /\ IF jobDescription = "" \/ userSkills = ""
       THEN /\ error' = ValidationMessage
            /\ UNCHANGED <<jobDescription, userSkills, analysis, loading, toast,
                           timers, pending>>
       ELSE /\ error' = NoMessage
            /\ loading' = TRUE
            /\ pending' = <<[jobDescription |-> jobDescription,
                             userSkills |-> userSkills,
                             body |-> requestBody(jobDescription, userSkills)]>>
            /\ UNCHANGED <<jobDescription, userSkills, analysis, toast, timers>>

handleAnalyze ==
    /\ ~loading
    /\ IF jobDescription = "" \/ userSkills = ""
       THEN /\ error' = ValidationMessage
            /\ UNCHANGED <<jobDescription, userSkills, analysis, loading, toast,
                           timers, pending>>
       ELSE /\ error' = NoMessage
            /\ loading' = TRUE
            /\ analysis' = Null
            /\ pending' = <<[jobDescription |-> jobDescription,
                             userSkills |-> userSkills,
                             body |-> requestBody(jobDescription, userSkills)]>>
            /\ UNCHANGED <<jobDescription, userSkills, toast, timers>>

\* the analysis handleAnalyze installs from a well-formed response, computed
\* from the response and the userSkills its closure holds (page.tsx 72-104)
installedAnalysis_trustGateway(res, closure) ==
    [buildAnalysis(res.requiredSkills, closure.userSkills)
        EXCEPT !.missingSkills = res.missingSkills]

installedAnalysis(res, closure) ==
    buildAnalysis(res.requiredSkills, closure.userSkills)

\* handleAnalyze from the await on (page.tsx 63, 71-112): axios.post resolved
\* with res, or threw (a network error or a status outside 2xx)
handleAnalyzeResume(res) ==
    /\ pending # Null
    /\ IF res.ok
       THEN IF expectedShape(res)
            THEN /\ analysis' = <<installedAnalysis(res, pending[1])>>
                 /\ UNCHANGED error
            ELSE /\ error' = FormatMessage
                 /\ UNCHANGED analysis
       ELSE /\ error' = FailedMessage
            /\ UNCHANGED analysis
    /\ loading' = FALSE
    /\ pending' = Null
    /\ UNCHANGED <<jobDescription, userSkills, toast, timers>>

\* handleReset (page.tsx 232-239)
handleReset ==
    /\ timers < MaxTimers
    /\ jobDescription' = ""
    /\ userSkills' = ""
    /\ analysis' = Null
    /\ error' = NoMessage
    /\ toast' = ResetToast
    /\ timers' = timers + 1
    /\ UNCHANGED <<loading, pending>>

\* the callback of setTimeout(() => setToast(null), 1200) (page.tsx 238)
toastTimeout ==
    /\ timers > 0
    /\ toast' = NoMessage
    /\ timers' = timers - 1
    /\ UNCHANGED <<jobDescription, userSkills, analysis, loading, error, pending>>

(***************************************************************************)
(* The gateway: POST (route.ts 9-64).  A call is suspended twice, at       *)
(* await req.json() and at await ai.models.generateContent(...).           *)
(***************************************************************************)
IdlePost == [pc |-> "idle", body |-> <<>>, response |-> <<>>]

\* a request arrives and POST runs up to await req.json() (route.ts 9-12)
postReceive(i, body) ==
    /\ posts[i].pc = "idle"
    /\ posts' = [posts EXCEPT ![i] = [pc |-> "json", body |-> <<body>>,
                                      response |-> <<>>]]
    /\ UNCHANGED jobAnalysisStore

\* req.json() settles (route.ts 12-30): a body that is no JSON object makes
\* the await or the destructuring throw outside the try, so POST rejects and
\* returns no response of its own; otherwise POST runs up to the await of
\* generateContent
postParsed(i) ==
    /\ posts[i].pc = "json"
    /\ posts' = [posts EXCEPT ![i] =
                    IF posts[i].body[1].valid
                    THEN [@ EXCEPT !.pc = "generate"]
                    ELSE [@ EXCEPT !.pc = "done",
                                   !.response = <<[kind |-> "rejected"]>>]]
    /\ UNCHANGED jobAnalysisStore

\* resultText.split(",").map(s => s.trim()).filter(Boolean) (route.ts 36-39)
extractSkills(resultText) ==
    LET parts == splitComma(resultText)
        trimmed == Array([k \in 1..Len(parts) |-> trim(parts[k])])
    IN  filterSeq(trimmed, Range(trimmed) \ {""})

ErrorResponse == [kind |-> "json", status |-> 500,
                  fields |-> {"error"}, error |-> "Failed to analyze job"]

\* generateContent settles and POST runs to its end (route.ts 21-63)
postGenerated(i, out) ==
    /\ posts[i].pc = "generate"
    /\ LET body == posts[i].body[1]
           extractedSkills == extractSkills(IF out.hasText THEN out.text ELSE "")
           \* userSkills.includes throws when userSkills is undefined and the
           \* filter callback runs at all
           throws == out.threw \/ (extractedSkills # <<>> /\ ~body.isArray)
           missingSkills == filterSeq(extractedSkills,
                                Range(extractedSkills) \ Range(body.userSkills))
       IN  IF throws
           THEN /\ posts' = [posts EXCEPT ![i].pc = "done",
                                          ![i].response = <<ErrorResponse>>]
                /\ UNCHANGED jobAnalysisStore
           ELSE /\ jobAnalysisStore' =
                       Append(jobAnalysisStore,
                              [jobTitle |-> "Unknown",
                               description |-> body.jobDescription,
                               requiredSkills |-> extractedSkills,
                               missingSkills |-> missingSkills])
                /\ posts' = [posts EXCEPT
                       ![i].pc = "done",
                       ![i].response =
                           <<[kind |-> "json", status |-> 200,
                              fields |-> {"requiredSkills", "missingSkills"},
                              requiredSkills |-> extractedSkills,
                              missingSkills |-> missingSkills]>>]

(***************************************************************************)
(* The inputs the specifications draw from.                                *)
(***************************************************************************)
JobStrongSql == "Must have strong SQL experience"
JobSqlGit == "Strong SQL and strong SQL tuning. Git, git, git, git and more git."
JobReactDocker == "We need React and experience with Docker."

SkillPool == {"React", "SQL", "Communication", "Node.js", "HTML"}

ExampleList == <<"React", "SQL", "Communication">>
RoadmapList == <<"HTML", "React">>
SixList == <<"React", "SQL", "Git", "Communication", "Teamwork", "Leadership">>
SevenList == <<"Docker", "Leadership", "SQL", "Kubernetes", "Git", "Node.js", "React">>
FortyList == [i \in 1..40 |-> IF i <= 23 THEN "React" ELSE "Docker"]
DuplicateList == <<"Node.js", "SQL", "Node.js", "Communication">>

BoundedSeqs(S, n) == UNION {[1..k -> S] : k \in 0..n}

EngineJobs == {JobStrongSql, JobSqlGit, JobReactDocker}
EngineTexts == {"react, Python", "Python", "react, sql, git, communication",
                "ReactJS, node", "Node JS,"}
EngineLists == BoundedSeqs(SkillPool, MaxRequired)
                   \cup {ExampleList, RoadmapList, SixList, SevenList, FortyList,
                         DuplicateList}

PageJobs == {JobStrongSql, JobReactDocker}
PageTexts == {"react, Python", "Python"}
PageLists == {ExampleList, RoadmapList}

RunLists == {ExampleList, RoadmapList, SixList}

\* what axios.post hands to handleAnalyze: a resolved response, or a throw
SkillsResponse(required, missing) ==
    [ok |-> TRUE, hasData |-> TRUE,
     requiredIsArray |-> TRUE, requiredSkills |-> required,
     missingIsArray |-> TRUE, missingSkills |-> missing]
Thrown == [SkillsResponse(<<>>, <<>>) EXCEPT !.ok = FALSE]
NoData == [SkillsResponse(<<>>, <<>>) EXCEPT !.hasData = FALSE]
MissingNotArray(required) ==
    [SkillsResponse(required, <<>>) EXCEPT !.missingIsArray = FALSE]

\* the page's peer is any HTTP server: the gateway's responses and others
PageResponses ==
    {Thrown, NoData}
        \cup {MissingNotArray(r) : r \in PageLists}
        \cup {SkillsResponse(r, m) : r \in PageLists, m \in {<<>>, ExampleList}}
EngineResponses == {SkillsResponse(r, <<>>) : r \in EngineLists}
RunResponses == {SkillsResponse(r, m) : r \in RunLists, m \in {<<>>, ExampleList}}

\* what a POST to the gateway carries, and what generateContent gives back
BadBody == [valid |-> FALSE, jobDescription |-> "", isArray |-> FALSE,
            userSkills |-> <<>>]
GatewayBodies ==
    {BadBody}
        \cup {requestBody(jd, t) : jd \in PageJobs, t \in PageTexts}
        \cup {[requestBody(JobStrongSql, "") EXCEPT !.isArray = FALSE]}
GenerateOutcomes ==
    {[threw |-> TRUE, hasText |-> FALSE, text |-> ""],
     [threw |-> FALSE, hasText |-> FALSE, text |-> ""],
     [threw |-> FALSE, hasText |-> TRUE, text |-> "React, SQL , ,Communication"],
     [threw |-> FALSE, hasText |-> TRUE, text |-> " Python,react"]}

(***************************************************************************)
(* History variables.                                                      *)
(***************************************************************************)
\* the attempt that has just installed a result, with what it was given
attemptRecord(res) ==
    [jobDescription |-> pending[1].jobDescription,
     userSkills |-> pending[1].userSkills,
     requiredSkills |-> res.requiredSkills,
     gatewayMissing |-> res.missingSkills,
     analysis |-> analysis'[1]]

\* the same with the job description its figures are shown for
runRecord(res) ==
    [attempt |-> attemptRecord(res), shownFor |-> jobDescription']

(***************************************************************************)
(* Spec: the page in use.  The user edits the two fields, clicks Analyze   *)
(* and Reset; the request is answered; the toast timer fires.              *)
(***************************************************************************)
Init ==
    /\ jobDescription = ""
    /\ userSkills = ""
    /\ analysis = Null
    /\ loading = FALSE
    /\ error = NoMessage
    /\ toast = NoMessage
    /\ timers = 0
    /\ pending = Null
    /\ jobAnalysisStore = <<>>
    /\ posts = [i \in 1..MaxPosts |-> IdlePost]
    /\ clicks = 0
    /\ lastOk = Null
    /\ runs = <<>>
    /\ resetSince = FALSE

EditJob ==
    /\ \E text \in PageJobs \cup {""} : setJobDescription(text)
    /\ UNCHANGED <<gatewayVars, historyVars>>

EditSkills ==
    /\ \E text \in PageTexts \cup {""} : setUserSkills(text)
    /\ UNCHANGED <<gatewayVars, historyVars>>

ClickAnalyze ==
    /\ handleAnalyze
    /\ clicks' = 1 - clicks
    /\ resetSince' = IF loading' /\ ~loading THEN FALSE ELSE resetSince
    /\ UNCHANGED <<gatewayVars, lastOk, runs>>

PageAnswer ==
    /\ \E res \in PageResponses :
          /\ handleAnalyzeResume(res)
          /\ lastOk' = IF analysis' # Null THEN <<attemptRecord(res)>> ELSE lastOk
    /\ UNCHANGED <<gatewayVars, clicks, runs, resetSince>>

ClickReset ==
    /\ handleReset
    /\ resetSince' = TRUE
    /\ UNCHANGED <<gatewayVars, clicks, lastOk, runs>>

ToastTimer ==
    /\ toastTimeout
    /\ UNCHANGED <<gatewayVars, historyVars>>

Next ==
    \/ EditJob
    \/ EditSkills
    \/ ClickAnalyze
    \/ PageAnswer
    \/ ClickReset
    \/ ToastTimer

Spec == Init /\ [][Next]_vars

(***************************************************************************)
(* EngineSpec: the matching and scoring engine on drawn inputs.  The two   *)
(* fields hold a drawn job description and skills text; Analyze is clicked *)
(* and answered with a drawn requiredSkills list.                          *)
(***************************************************************************)
EngineInit ==
    /\ jobDescription \in EngineJobs
    /\ userSkills \in EngineTexts
    /\ analysis = Null
    /\ loading = FALSE
    /\ error = NoMessage
    /\ toast = NoMessage
    /\ timers = 0
    /\ pending = Null
    /\ jobAnalysisStore = <<>>
    /\ posts = [i \in 1..MaxPosts |-> IdlePost]
    /\ clicks = 0
    /\ lastOk = Null
    /\ runs = <<>>
    /\ resetSince = FALSE

EngineAnswer ==
    /\ \E res \in EngineResponses : handleAnalyzeResume(res)
    /\ UNCHANGED <<gatewayVars, historyVars>>

EngineNext ==
    \/ ClickAnalyze
    \/ EngineAnswer

EngineSpec == EngineInit /\ [][EngineNext]_vars

(***************************************************************************)
(* RunsSpec: Analyze run repeatedly on the same two fields; the last two   *)
(* runs that installed a result are kept with their figures.               *)
(***************************************************************************)
RunsAnswer ==
    /\ \E res \in RunResponses :
          /\ handleAnalyzeResume(res)
          /\ runs' = <<runRecord(res)>> \o sliceTo(runs, 1)
    /\ UNCHANGED <<gatewayVars, clicks, lastOk, resetSince>>

RunsNext ==
    \/ ClickAnalyze
    \/ RunsAnswer

RunsSpec == EngineInit /\ [][RunsNext]_vars

(***************************************************************************)
(* GatewaySpec: the gateway serving POSTs from any callers, interleaved.   *)
(***************************************************************************)
PostReceive ==
    /\ \E i \in 1..MaxPosts : \E body \in GatewayBodies : postReceive(i, body)
    /\ UNCHANGED <<pageVars, historyVars>>

PostParsed ==
    /\ \E i \in 1..MaxPosts : postParsed(i)
    /\ UNCHANGED <<pageVars, historyVars>>

PostGenerated ==
    /\ \E i \in 1..MaxPosts : \E out \in GenerateOutcomes : postGenerated(i, out)
    /\ UNCHANGED <<pageVars, historyVars>>

GatewayNext ==
    \/ PostReceive
    \/ PostParsed
    \/ PostGenerated

GatewaySpec == Init /\ [][GatewayNext]_vars

(***************************************************************************)
(* The claims.                                                             *)
(***************************************************************************)
FailureMessages == {FailedMessage, FormatMessage}

\* the page shows the outcome of a failed attempt: the attempt has finished
\* and nothing has been clicked since
FailedAttemptFinished == ~loading /\ error \in FailureMessages

\* C1, as stated: once a failed Analyze attempt has finished, the result of
\* the last successful attempt is still the current analysis, and the
\* analysis is absent only if no attempt succeeded before.
C1_PriorAnalysisSurvivesFailure ==
    FailedAttemptFinished =>
        analysis = (IF lastOk = Null THEN Null ELSE <<lastOk[1].analysis>>)

\* C1, amended: once a failed Analyze attempt has finished, no analysis is
\* current, whether or not an earlier attempt succeeded (the attempt cleared
\* the analysis when it started).
C1_FailedAttemptLeavesNoAnalysis ==
    FailedAttemptFinished => analysis = Null

C1_FailedAfterSuccess ==
    FailedAttemptFinished /\ lastOk # Null /\ analysis = Null

\* the normalization as the claims word it: lowercase, trim, strip
ClaimNormalize(s) == stripDotsHyphensSpaces(trim(toLowerCase(s)))

\* some entry of the comma-split text, normalized, is a substring of the
\* normalized skill or contains it
ClaimMatched(skill, text) ==
    \E e \in Range(splitComma(text)) :
        \/ includes(ClaimNormalize(skill), ClaimNormalize(e))
        \/ includes(ClaimNormalize(e), ClaimNormalize(skill))

Count(seq, x) == Cardinality({i \in 1..Len(seq) : seq[i] = x})

RECURSIVE IsSubsequence(_, _)
IsSubsequence(a, b) ==
    IF a = <<>> THEN TRUE
    ELSE IF b = <<>> THEN FALSE
    ELSE IF Head(a) = Head(b) THEN IsSubsequence(Tail(a), Tail(b))
    ELSE IsSubsequence(a, Tail(b))

\* C2: after a successful Analyze every required skill is in exactly one of
\* matchedSkills and missingSkills, missing iff no normalized entry of the
\* user's text is a substring of the normalized skill or contains it; the
\* matched list the dashboard derives holds exactly the matched occurrences,
\* so matched and missing together make up requiredSkills and are disjoint.
C2_MatchedAndMissingPartitionRequired ==
    analysis # Null =>
        LET required == analysis[1].requiredSkills
            missing == analysis[1].missingSkills
        IN  /\ \A s \in Range(required) :
                  /\ s \in Range(missing) <=> ~ClaimMatched(s, userSkills)
                  /\ s \in Range(matchedSkills) <=> ClaimMatched(s, userSkills)
                  /\ Count(matchedSkills, s) + Count(missing, s)
                         = Count(required, s)
            /\ Range(matchedSkills) \cap Range(missing) = {}
            /\ Range(matchedSkills) \cup Range(missing) = Range(required)
            /\ Len(matchedSkills) + Len(missing) = Len(required)
            /\ IsSubsequence(matchedSkills, required)
            /\ IsSubsequence(missing, required)

C2_DuplicatesMatchedAndMissing ==
    /\ analysis # Null
    /\ matchedSkills # <<>>
    /\ analysis[1].missingSkills # <<>>
    /\ \E s \in Range(analysis[1].requiredSkills) :
           Count(analysis[1].requiredSkills, s) > 1
    \* a skill matched only because its normal form contains the entry
    /\ \E s \in Range(matchedSkills) :
           \A e \in Range(splitComma(userSkills)) :
               ~includes(ClaimNormalize(e), ClaimNormalize(s))

\* technical iff the lowercased text contains one of the fixed keywords
ClaimTechnical(skill) ==
    \E kw \in Range(technicalKeywords) : includes(toLowerCase(skill), kw)

\* C3: technicalSkills and softSkills partition requiredSkills: every
\* occurrence of a required skill is in exactly one of them (technical iff
\* its lowercased text contains a technical keyword), nothing is added,
\* dropped or duplicated, and both keep the order of requiredSkills.
C3_TechnicalAndSoftPartitionRequired ==
    analysis # Null =>
        LET required == analysis[1].requiredSkills
            technical == analysis[1].technicalSkills
            soft == analysis[1].softSkills
        IN  /\ \A s \in Range(required) :
                  /\ Count(technical, s) =
                         (IF ClaimTechnical(s) THEN Count(required, s) ELSE 0)
                  /\ Count(soft, s) =
                         (IF ClaimTechnical(s) THEN 0 ELSE Count(required, s))
            /\ Range(technical) \cup Range(soft) = Range(required)
            /\ Len(technical) + Len(soft) = Len(required)
            /\ IsSubsequence(technical, required)
            /\ IsSubsequence(soft, required)

C3_BothCategoriesWithDuplicate ==
    /\ analysis # Null
    /\ analysis[1].technicalSkills # <<>>
    /\ analysis[1].softSkills # <<>>
    /\ \E s \in Range(analysis[1].requiredSkills) :
           Count(analysis[1].requiredSkills, s) > 1

\* round(num / den) in exact arithmetic, halves rounded up
ExactRound(num, den) == (2 * num + den) \div (2 * den)

ExactPercent(count, total) ==
    IF total = 0 THEN 0 ELSE ExactRound(100 * count, total)

\* the occurrences of seq that are matched skills
MatchedIn(seq) == Cardinality({i \in 1..Len(seq) : seq[i] \in Range(matchedSkills)})

\* C4, as stated: matchPercentage is round(100 * |matched| / |required|),
\* technicalMatchPercentage and softMatchPercentage are the same ratio over
\* the technical and the soft skills, each is 0 for an empty list and an
\* integer in 0..100; React, SQL, Communication against "react, Python"
\* gives 33, 50 and 0.
C4_PercentagesAreRoundedRatios ==
    analysis # Null =>
        LET a == analysis[1]
        IN  /\ matchPercentage
                   = ExactPercent(Len(matchedSkills), Len(a.requiredSkills))
            /\ technicalMatchPercentage
                   = ExactPercent(MatchedIn(a.technicalSkills), Len(a.technicalSkills))
            /\ softMatchPercentage
                   = ExactPercent(MatchedIn(a.softSkills), Len(a.softSkills))
            /\ {matchPercentage, technicalMatchPercentage, softMatchPercentage}
                   \subseteq 0..100
            /\ (a.requiredSkills = ExampleList /\ userSkills = "react, Python")
                   => /\ matchPercentage = 33
                      /\ technicalMatchPercentage = 50
                      /\ softMatchPercentage = 0

Clamp(x) == IF x < 0 THEN 0 ELSE IF x > 100 THEN 100 ELSE x

\* C5, as stated: the readiness score is an integer in 0..100, 0 without an
\* analysis, and otherwise round(0.6 * matchPercentage
\* + 0.3 * technicalMatchPercentage + 0.1 * softMatchPercentage) clamped.
C5_ReadinessIsRoundedWeightedSum ==
    /\ readinessScore \in 0..100
    /\ analysis = Null => readinessScore = 0
    /\ analysis # Null =>
           readinessScore =
               Clamp(ExactRound(6 * matchPercentage + 3 * technicalMatchPercentage
                                    + softMatchPercentage, 10))

\* the phrases of one importance word for a skill
Phrases(word, skillLower) ==
    {word \o " " \o skillLower, word \o " with " \o skillLower}

\* the score as C6 states it: 5 points per occurrence of an importance phrase
\* plus 2 points per raw occurrence of the skill text
OccurrenceScore(skill, jd) ==
    LET text == toLowerCase(jd)
        skillLower == toLowerCase(skill)
        perWord == [w \in 1..Len(importanceWords) |->
                       matchCount(text, importanceWords[w] \o " " \o skillLower)
                       + matchCount(text, importanceWords[w] \o " with " \o skillLower)]
        Sum[w \in 0..Len(importanceWords)] ==
            IF w = 0 THEN 0 ELSE Sum[w - 1] + perWord[w]
    IN  5 * Sum[Len(importanceWords)] + 2 * matchCount(text, skillLower)

\* the score as amended: 5 points per importance word of which a phrase
\* occurs at least once, plus 2 points per raw occurrence of the skill text
WordScore(skill, jd) ==
    LET text == toLowerCase(jd)
        skillLower == toLowerCase(skill)
    IN  5 * Cardinality({w \in Range(importanceWords) :
                            \E ph \in Phrases(w, skillLower) : includes(text, ph)})
        + 2 * matchCount(text, skillLower)

\* the scores of a list of skills, in its order
ScoresOf(skills, score(_, _), jd) ==
    Array([i \in 1..Len(skills) |-> score(skills[i], jd)])

\* top holds the first min(5, n) of the missing skills ordered by descending
\* score, equal scores in their original order; scores[i] is the score of
\* missing[i]
IsTopFive(top, missing, scores) ==
    LET n == Len(missing)
        place(i) == 1 + Cardinality({j \in 1..n :
                            \/ scores[j] > scores[i]
                            \/ scores[j] = scores[i] /\ j < i})
    IN  /\ Len(top) = (IF n < 5 THEN n ELSE 5)
        /\ \A i \in 1..n : place(i) <= Len(top) => top[place(i)] = missing[i]

\* C6, as stated: the top-missing list holds min(5, number of missing
\* skills) missing skills in descending order of score, equal scores in
\* their original order, the score being 5 points per occurrence of an
\* importance phrase plus 2 points per raw occurrence of the skill.
C6_TopMissingByOccurrenceScore ==
    analysis # Null =>
        IsTopFive(topSuggested, analysis[1].missingSkills,
                  ScoresOf(analysis[1].missingSkills, OccurrenceScore,
                           jobDescription))

\* C6, amended: the same, the score being 5 points per importance word whose
\* phrase (the word immediately followed by the skill, or with "with" in
\* between) occurs at least once in the lowercased job description, plus 2
\* points per raw occurrence of the skill.
C6_TopMissingByWordScore ==
    analysis # Null =>
        LET top == topSuggested
            topScores == ScoresOf(top, WordScore, jobDescription)
        IN  /\ IsTopFive(top, analysis[1].missingSkills,
                         ScoresOf(analysis[1].missingSkills, WordScore,
                                  jobDescription))
            /\ Range(top) \subseteq Range(analysis[1].missingSkills)
            /\ \A i, j \in 1..Len(top) : i < j => topScores[i] >= topScores[j]

C6_ScoredSkillRaisedIntoTopFive ==
    /\ analysis # Null
    /\ Len(analysis[1].missingSkills) > 5
    /\ Len(topSuggested) = 5
    /\ topSuggested[1] # analysis[1].missingSkills[1]
    /\ WordScore(topSuggested[1], jobDescription) > 0
    /\ WordScore(topSuggested[5], jobDescription) = 0

\* the position of a line among the five fixed lines, 0 for the fallback
LineNumber(line) ==
    IF line \in Range(RoadmapLines)
    THEN CHOOSE b \in 1..Len(RoadmapLines) : RoadmapLines[b] = line
    ELSE 0

\* C7: for every analysis the roadmap is non-empty and built from the
\* missing skills: it holds the line of a bucket exactly when a missing skill
\* contains a keyword of the bucket, the lines in the order 1..5, and the
\* single fallback line iff no bucket matches; missing HTML and React give
\* lines 1 and 2.
C7_RoadmapFollowsMissingBuckets ==
    analysis # Null =>
        LET missing == analysis[1].missingSkills
            roadmap == learningRoadmap
        IN  /\ roadmap # <<>>
            /\ \A b \in 1..Len(RoadmapLines) :
                   RoadmapLines[b] \in Range(roadmap) <=> hasBucket(missing, b)
            /\ RoadmapFallback \in Range(roadmap)
                   <=> \A b \in 1..Len(RoadmapLines) : ~hasBucket(missing, b)
            /\ Range(roadmap) \subseteq Range(RoadmapLines) \cup {RoadmapFallback}
            /\ \A i, j \in 1..Len(roadmap) :
                   i < j => LineNumber(roadmap[i]) < LineNumber(roadmap[j])
            /\ missing = RoadmapList
                   => roadmap = <<RoadmapLines[1], RoadmapLines[2]>>

C7_HtmlAndReactMissing ==
    /\ analysis # Null
    /\ analysis[1].missingSkills = RoadmapList
    /\ learningRoadmap = <<RoadmapLines[1], RoadmapLines[2]>>

\* C8: when Analyze is triggered while the job description or the skills
\* text is empty, the error message is set, no request is sent, and the
\* analysis, the loading flag and both fields stay as they are.
C8_EmptyFieldBlocksSubmission ==
    [][(clicks' # clicks /\ (jobDescription = "" \/ userSkills = ""))
          => /\ error' = ValidationMessage
             /\ pending' = pending
             /\ analysis' = analysis
             /\ loading' = loading
             /\ jobDescription' = jobDescription
             /\ userSkills' = userSkills]_vars

C8_BlockedWhileAnalysisShown ==
    /\ error = ValidationMessage
    /\ analysis # Null
    /\ ~loading
    /\ pending = Null
    /\ jobDescription = ""

\* the POSTs that have ended with a response of the given status
EndedWith(status) ==
    {i \in 1..MaxPosts : /\ posts[i].pc = "done"
                         /\ posts[i].response[1].kind = "json"
                         /\ posts[i].response[1].status = status}

\* C9, as stated: every POST ends either in success (a response with both
\* skill lists, one record appended) or in failure (a response holding only
\* an error field, status 500, the list unchanged); the list is as long as
\* the number of successful requests.
C9_EveryPostSucceedsOrFails ==
    /\ \A i \in 1..MaxPosts :
           posts[i].pc = "done" =>
               /\ posts[i].response[1].kind = "json"
               /\ \/ /\ posts[i].response[1].status = 200
                     /\ posts[i].response[1].fields
                            = {"requiredSkills", "missingSkills"}
                  \/ /\ posts[i].response[1].status = 500
                     /\ posts[i].response[1].fields = {"error"}
    /\ Len(jobAnalysisStore) = Cardinality(EndedWith(200))

\* the figures the dashboard derives for a recorded run
FiguresOf(run) ==
    LET a == <<run.attempt.analysis>>
    IN  <<matchedSkillsOf(a), matchPercentageOf(a), technicalMatchPercentageOf(a),
          softMatchPercentageOf(a), readinessScoreOf(a),
          topSuggestedOf(a, run.shownFor), learningRoadmapOf(a)>>

SameInputs(x, y) ==
    /\ x.attempt.jobDescription = y.attempt.jobDescription
    /\ x.shownFor = y.shownFor
    /\ x.attempt.userSkills = y.attempt.userSkills
    /\ x.attempt.requiredSkills = y.attempt.requiredSkills

\* C10: two runs of Analyze with the same job description, the same skills
\* text and responses with the same requiredSkills give the same
\* AnalysisResult and the same derived figures, whatever missingSkills
\* arrays the responses carried.
C10_GatewayMissingSkillsIgnored ==
    (Len(runs) = 2 /\ SameInputs(runs[1], runs[2])) =>
        /\ runs[1].attempt.analysis = runs[2].attempt.analysis
        /\ FiguresOf(runs[1]) = FiguresOf(runs[2])

C10_SameInputsOtherMissingSkills ==
    /\ Len(runs) = 2
    /\ SameInputs(runs[1], runs[2])
    /\ runs[1].attempt.gatewayMissing # runs[2].attempt.gatewayMissing
    /\ runs[1].attempt.analysis.missingSkills # runs[1].attempt.gatewayMissing
    /\ runs[1].attempt.analysis.missingSkills # runs[2].attempt.gatewayMissing
    /\ runs[1].attempt.analysis.missingSkills # <<>>

\* C11: once Reset has run, and until the user starts a new Analyze, no
\* analysis is displayed and the loading indicator is off; in particular the
\* response to an Analyze started before the Reset installs no
\* AnalysisResult.
C11_ResetLeavesNothingShown ==
    resetSince => (analysis = Null /\ ~loading)

\* Array.prototype.join(","), to write a list of entries back as a text
RECURSIVE joinComma(_)
joinComma(parts) ==
    IF parts = <<>> THEN ""
    ELSE IF Len(parts) = 1 THEN parts[1]
    ELSE parts[1] \o "," \o joinComma(Tail(parts))

\* the entries of a skills text that are empty after normalization
EmptyEntries(text) == {e \in Range(splitComma(text)) : normalize(e) = ""}

\* the same text with those entries removed
WithoutEmptyEntries(text) ==
    LET parts == splitComma(text)
    IN  joinComma(filterSeq(parts, Range(parts) \ EmptyEntries(text)))

\* C12: entries of the skills text that are empty after normalization have
\* no effect on the classification: the missing (and so the matched) skills
\* of every installed analysis are those obtained from the same text with
\* the empty entries removed.
C12_EmptyEntriesHaveNoEffect ==
    analysis # Null =>
        analysis[1].missingSkills =
            buildAnalysis(analysis[1].requiredSkills,
                          WithoutEmptyEntries(userSkills)).missingSkills

=============================================================================
